---- MODULE Spec2Model ----
(***************************************************************************)
(* A model of custom_components/tuya_local/helpers/device_config.py: the   *)
(* matching of a device config against a dps map (matches, match_quality)  *)
(* and the translation of dps values (get_value, get_values_to_set,        *)
(* async_set_value) by TuyaDpsConfig.                                      *)
(*                                                                         *)
(* Python values are records [t, n, d, s]: t is the Python type ("none",   *)
(* "bool", "int", "float", "str"), n/d the number (d = 1 for bool and int, *)
(* a float is the exact fraction n/d in lowest terms), s the string.       *)
(***************************************************************************)
EXTENDS Integers, Sequences, FiniteSets, TLC

VARIABLES config, dps, sent, last

vars == <<config, dps, sent, last>>

-----------------------------------------------------------------------------
(* Bounds of the model *)

\* the dps map holds at most this many keys besides "updated_at"
MaxKeys == 8
\* integer literals a string can spell (int("42")) lie in -MaxLit..MaxLit
MaxLit == 50
\* depth at which the interpreter gives up a recursion (RecursionError)
RecursionLimit == 5

-----------------------------------------------------------------------------
(* Python values *)

None == [t |-> "none", n |-> 0, d |-> 1, s |-> ""]
B(b) == [t |-> "bool", n |-> IF b THEN 1 ELSE 0, d |-> 1, s |-> ""]
I(i) == [t |-> "int", n |-> i, d |-> 1, s |-> ""]
S(str) == [t |-> "str", n |-> 0, d |-> 1, s |-> str]

Abs(i) == IF i < 0 THEN -i ELSE i

RECURSIVE Gcd(_, _)
Gcd(a, b) == IF b = 0 THEN a ELSE Gcd(b, a % b)

\* the float n/d, in lowest terms with a positive denominator
F(n, d) ==
    LET sn == IF d < 0 THEN -n ELSE n
        sd == Abs(d)
        g == Gcd(Abs(sn), sd)
    IN  [t |-> "float", n |-> sn \div g, d |-> sd \div g, s |-> ""]

\* isinstance(v, (int, float)): bool is a subclass of int
IsNumber(v) == v.t \in {"bool", "int", "float"}

\* Python's ==
PyEq(a, b) ==
    IF IsNumber(a) /\ IsNumber(b) THEN a.n * b.d = b.n * a.d
    ELSE a.t = b.t /\ a.s = b.s

\* bool(v)
Truthy(v) ==
    CASE v.t = "none" -> FALSE
      [] v.t = "str" -> v.s # ""
      [] OTHER -> v.n # 0

\* round(n/d) to an integer: Python 3 rounds halves to the even neighbour
PyRound(n, d) ==
    LET q == n \div d
        r == n % d
    IN  IF 2 * r < d THEN q
        ELSE IF 2 * r > d THEN q + 1
        ELSE IF q % 2 = 0 THEN q ELSE q + 1

\* repr of a float whose denominator divides 10 (2.5, 25.0); other
\* fractions print with digits no string of the model spells
FloatStr(n, d) ==
    IF 10 % d = 0
    THEN LET tenths == Abs(n) * (10 \div d)
         IN  (IF n < 0 THEN "-" ELSE "") \o ToString(tenths \div 10)
               \o "." \o ToString(tenths % 10)
    ELSE ToString(n) \o "/" \o ToString(d)

\* str(v)
PyStr(v) ==
    CASE v.t = "none" -> "None"
      [] v.t = "bool" -> IF v.n = 1 THEN "True" ELSE "False"
      [] v.t = "int" -> ToString(v.n)
      [] v.t = "float" -> FloatStr(v.n, v.d)
      [] OTHER -> v.s

IntLits == (0 - MaxLit) .. MaxLit

\* int(s) succeeds: s spells an integer
IntParses(str) == \E i \in IntLits : ToString(i) = str
IntOf(str) == CHOOSE i \in IntLits : ToString(i) = str

\* float(s) succeeds: s spells an integer or a decimal
TenthsParses(str) == \E i \in IntLits : FloatStr(i, 10) = str
FloatParses(str) == IntParses(str) \/ TenthsParses(str)
FloatOf(str) ==
    IF IntParses(str) THEN F(IntOf(str), 1)
    ELSE F(CHOOSE i \in IntLits : FloatStr(i, 10) = str, 10)

-----------------------------------------------------------------------------
(* Lookups in a config: a config, an entity, a dps, a mapping and a        *)
(* condition are records holding the keys their yaml states.               *)

Has(m, k) == k \in DOMAIN m
Get(m, k, default) == IF k \in DOMAIN m THEN m[k] ELSE default

\* _typematch without its first test: isinstance(True, int) holds
TypematchBoolIsInt(type, value) ==
    IF value.t = type \/ (type = "int" /\ value.t = "bool") THEN TRUE
    ELSE IF value.t = "str" /\ type # "bool"
         THEN IF type = "int" THEN IntParses(value.s)
              ELSE FloatParses(value.s)
    ELSE FALSE

\* _typematch(type, value); type is "bool", "int", "str" or "float"
Typematch(type, value) ==
    IF type = "int" /\ value.t = "bool" THEN FALSE
    ELSE IF value.t = type THEN TRUE
    ELSE IF value.t = "str" /\ type # "bool"
         THEN IF type = "int" THEN IntParses(value.s)
              ELSE FloatParses(value.s)
    ELSE FALSE

\* TuyaDpsConfig.id
DpsId(d) == ToString(d.id)

\* TuyaDpsConfig.type
DpsType(d) ==
    CASE d.type = "boolean" -> "bool"
      [] d.type = "integer" -> "int"
      [] d.type = "string" -> "str"
      [] d.type = "float" -> "float"
      [] d.type = "bitfield" -> "int"

\* TuyaDeviceConfig.primary_entity, secondary_entities
PrimaryEntity(cfg) == cfg.primary_entity
SecondaryEntities(cfg) == Get(cfg, "secondary_entities", <<>>)

\* the loop body of matches: one entity's dps all present and of their type
EntityMatches(entity, raw) ==
    \A i \in 1 .. Len(entity.dps) :
        LET d == entity.dps[i]
        IN  DpsId(d) \in DOMAIN raw /\ Typematch(DpsType(d), raw[DpsId(d)])

\* TuyaDeviceConfig.matches
Matches(cfg, raw) ==
    /\ EntityMatches(PrimaryEntity(cfg), raw)
    /\ \A e \in 1 .. Len(SecondaryEntities(cfg)) :
           EntityMatches(SecondaryEntities(cfg)[e], raw)

\* _entity_match_analyse that forgets the ids already matched
RECURSIVE EntityMatchAnalyseNoMatched(_, _, _, _, _)
EntityMatchAnalyseNoMatched(entity, i, keys, matched, raw) ==
    IF i > Len(entity.dps) THEN [ok |-> TRUE, keys |-> keys, matched |-> matched]
    ELSE LET d == entity.dps[i]
             id == DpsId(d)
         IN  IF id \notin keys \/ ~Typematch(DpsType(d), raw[id])
             THEN [ok |-> FALSE, keys |-> keys, matched |-> matched]
             ELSE EntityMatchAnalyseNoMatched(entity, i + 1, keys \ {id},
                                              matched \cup {id}, raw)

\* TuyaDeviceConfig._entity_match_analyse from its i-th dps on: the
\* answer, with keys and matched as the call leaves them
RECURSIVE EntityMatchAnalyseFrom(_, _, _, _, _)
EntityMatchAnalyseFrom(entity, i, keys, matched, raw) ==
    IF i > Len(entity.dps) THEN [ok |-> TRUE, keys |-> keys, matched |-> matched]
    ELSE LET d == entity.dps[i]
             id == DpsId(d)
         IN  IF (id \notin keys /\ id \notin matched)
                   \/ ~Typematch(DpsType(d), raw[id])
             THEN [ok |-> FALSE, keys |-> keys, matched |-> matched]
             ELSE IF id \in keys
                  THEN EntityMatchAnalyseFrom(entity, i + 1, keys \ {id},
                                              matched \cup {id}, raw)
                  ELSE EntityMatchAnalyseFrom(entity, i + 1, keys, matched, raw)

EntityMatchAnalyse(entity, keys, matched, raw) ==
    EntityMatchAnalyseFrom(entity, 1, keys, matched, raw)

\* the loop of match_quality over the secondary entities, from the e-th
RECURSIVE SecondaryAnalyse(_, _, _, _, _)
SecondaryAnalyse(cfg, e, keys, matched, raw) ==
    IF e > Len(SecondaryEntities(cfg))
    THEN [ok |-> TRUE, keys |-> keys, matched |-> matched]
    ELSE LET a == EntityMatchAnalyse(SecondaryEntities(cfg)[e], keys, matched, raw)
         IN  IF ~a.ok THEN a
             ELSE SecondaryAnalyse(cfg, e + 1, a.keys, a.matched, raw)

\* TuyaDeviceConfig.match_quality: the score, or the exception raised
MatchQuality(cfg, raw) ==
    LET keys == DOMAIN raw \ {"updated_at"}
        total == Cardinality(keys)
        p == EntityMatchAnalyse(PrimaryEntity(cfg), keys, {}, raw)
        q == SecondaryAnalyse(cfg, 1, p.keys, p.matched, raw)
    IN  IF ~p.ok THEN [err |-> "none", val |-> 0]
        ELSE IF ~q.ok THEN [err |-> "none", val |-> 0]
        ELSE IF total = 0 THEN [err |-> "ZeroDivisionError", val |-> 0]
        ELSE [err |-> "none",
              val |-> PyRound((total - Cardinality(q.keys)) * 100, total)]

-----------------------------------------------------------------------------
(* TuyaEntityConfig and TuyaDpsConfig.  A dps is named by its entity and   *)
(* its index in the entity's dps list; index 0 stands for Python's None,   *)
(* for a dps, a mapping and a condition alike.                             *)

\* device.get_property(id): the value the device holds, None when it has none
GetProperty(raw, id) == IF id \in DOMAIN raw THEN raw[id] ELSE None

SetMin(X) == CHOOSE x \in X : \A y \in X : x <= y
SetMax(X) == CHOOSE x \in X : \A y \in X : x >= y

\* TuyaEntityConfig.find_dps: the first dps of that name
FindDps(entity, name) ==
    LET hits == {i \in 1 .. Len(entity.dps) : entity.dps[i].name = name}
    IN  IF hits = {} THEN 0 ELSE SetMin(hits)

Mapping(d) == Get(d, "mapping", <<>>)
Conditions(m) == Get(m, "conditions", <<>>)

\* TuyaDpsConfig.readonly, stringify
Readonly(d) == Get(d, "readonly", FALSE)
Stringify(d) == Get(d, "stringify", FALSE)

\* _find_map_for_dps, had it taken the first mapping that has no dps_val
\* or whose dps_val prints as value does
FindMapForDpsFirstFit(d, value) ==
    LET M == Mapping(d)
        fits == {i \in 1 .. Len(M) :
                    \/ ~Has(M[i], "dps_val")
                    \/ PyStr(M[i].dps_val) = PyStr(value)}
    IN  IF fits # {} THEN SetMin(fits) ELSE 0

\* TuyaDpsConfig._find_map_for_dps: the first mapping whose dps_val prints
\* as value does, else the last mapping with no dps_val
FindMapForDps(d, value) ==
    LET M == Mapping(d)
        hits == {i \in 1 .. Len(M) :
                    Has(M[i], "dps_val") /\ PyStr(M[i].dps_val) = PyStr(value)}
        defaults == {i \in 1 .. Len(M) : ~Has(M[i], "dps_val")}
    IN  IF hits # {} THEN SetMin(hits)
        ELSE IF defaults # {} THEN SetMax(defaults)
        ELSE 0

\* the test of _find_map_for_value on one mapping: its value prints as
\* value does, or a condition's value is == value
MapHasValue(m, value) ==
    \/ Has(m, "value") /\ PyStr(m.value) = PyStr(value)
    \/ \E c \in 1 .. Len(Conditions(m)) :
           Has(Conditions(m)[c], "value") /\ PyEq(Conditions(m)[c].value, value)

\* TuyaDpsConfig._find_map_for_value
FindMapForValue(d, value) ==
    LET M == Mapping(d)
        hits == {i \in 1 .. Len(M) : MapHasValue(M[i], value)}
        defaults == {i \in 1 .. Len(M) : ~Has(M[i], "dps_val")}
    IN  IF hits # {} THEN SetMin(hits)
        ELSE IF defaults # {} THEN SetMax(defaults)
        ELSE 0

\* TuyaDpsConfig._active_condition: the first condition whose dps_val the
\* constraint dps holds
ActiveCondition(entity, m, raw) ==
    IF Has(m, "constraint") /\ Has(m, "conditions")
    THEN LET c == FindDps(entity, m.constraint)
             c_val == IF c = 0 THEN None
                      ELSE GetProperty(raw, DpsId(entity.dps[c]))
             hits == {k \in 1 .. Len(m.conditions) :
                         PyEq(c_val, Get(m.conditions[k], "dps_val", None))}
         IN  IF c_val # None /\ hits # {} THEN SetMin(hits) ELSE 0
    ELSE 0

\* a range that states both min and max
FullRange(r) == Has(r, "min") /\ Has(r, "max")
NoRange == [none |-> TRUE]

\* TuyaDpsConfig.range: the active condition's, else the mapping's (both
\* found from the value the device holds now), else the dps's own
Range(entity, d, raw) ==
    LET i == FindMapForDps(d, GetProperty(raw, DpsId(d)))
        m == Mapping(d)[i]
        c == ActiveCondition(entity, m, raw)
    IN  IF i # 0 /\ c # 0 /\ FullRange(Get(m.conditions[c], "range", NoRange))
        THEN m.conditions[c].range
        ELSE IF i # 0 /\ FullRange(Get(m, "range", NoRange)) THEN m.range
        ELSE IF FullRange(Get(d, "range", NoRange)) THEN d.range
        ELSE NoRange

\* TuyaDpsConfig.invalid_for
InvalidFor(entity, d, value, raw) ==
    LET i == FindMapForValue(d, value)
        c == IF i = 0 THEN 0 ELSE ActiveCondition(entity, Mapping(d)[i], raw)
    IN  IF c # 0 THEN Get(Mapping(d)[i].conditions[c], "invalid", FALSE)
        ELSE FALSE

\* type(value) as _map_from_dps calls it for a stringified dps; ok is
\* FALSE when it raises ValueError
Convert(type, value) ==
    CASE type = "int" ->
           IF value.t = "str"
           THEN IF IntParses(value.s) THEN [ok |-> TRUE, val |-> I(IntOf(value.s))]
                ELSE [ok |-> FALSE, val |-> value]
           ELSE [ok |-> TRUE,
                 val |-> I(IF value.n >= 0 THEN value.n \div value.d
                           ELSE -((-value.n) \div value.d))]
      [] type = "float" ->
           IF value.t = "str"
           THEN IF FloatParses(value.s) THEN [ok |-> TRUE, val |-> FloatOf(value.s)]
                ELSE [ok |-> FALSE, val |-> value]
           ELSE [ok |-> TRUE, val |-> F(value.n, value.d)]
      [] type = "bool" -> [ok |-> TRUE, val |-> B(Truthy(value))]
      [] OTHER -> [ok |-> TRUE, val |-> S(PyStr(value))]

\* the second-order mappings of a condition, applied one after another
RECURSIVE CondMapping(_, _, _)
CondMapping(ms, k, result) ==
    IF k > Len(ms) THEN result
    ELSE CondMapping(ms, k + 1,
             IF PyStr(Get(ms[k], "dps_val", None)) = PyStr(result)
             THEN Get(ms[k], "value", result) ELSE result)

\* what a call returns: err is "none" or the exception raised, val the
\* value returned, map the dps map returned, depth the deepest nesting of
\* get_value / get_values_to_set calls it made
Returned(v, depth) == [err |-> "none", val |-> v, map |-> <<>>, depth |-> depth]
ReturnedMap(m, depth) == [err |-> "none", val |-> None, map |-> m, depth |-> depth]
Raised(e, depth) == [err |-> e, val |-> None, map |-> <<>>, depth |-> depth]

RECURSIVE GetValue(_, _, _, _)
RECURSIVE MapFromDps(_, _, _, _, _)

\* TuyaDpsConfig._map_from_dps
MapFromDps(entity, x, value0, raw, depth) ==
    LET d == entity.dps[x]
        conv == Convert(DpsType(d), value0)
        value == IF Stringify(d) /\ value0 # None /\ conv.ok THEN conv.val
                 ELSE value0
        i == FindMapForDps(d, value)
        m == Mapping(d)[i]
        c == ActiveCondition(entity, m, raw)
        cond == m.conditions[c]
        result1 == Get(m, "value", value)
        result2 == IF c = 0 THEN result1
                   ELSE CondMapping(Get(cond, "mapping", <<>>), 1,
                                    Get(cond, "value", result1))
        scale1 == Get(m, "scale", 1)
        scale == IF c = 0 THEN scale1 ELSE Get(cond, "scale", scale1)
        redirect1 == Get(m, "value_redirect", "")
        redirect == IF c = 0 THEN redirect1
                    ELSE Get(cond, "value_redirect", redirect1)
        r_dps == FindDps(entity, redirect)
    IN  IF i = 0 THEN Returned(value, depth)
        ELSE IF c # 0 /\ Get(cond, "invalid", FALSE) THEN Returned(None, depth)
        ELSE IF redirect # ""
             THEN IF r_dps = 0 THEN Raised("AttributeError", depth)
                  ELSE GetValue(entity, r_dps, raw, depth + 1)
        ELSE IF scale # 1 /\ IsNumber(result2)
             THEN Returned(F(result2.n, result2.d * scale), depth)
        ELSE Returned(result2, depth)

\* TuyaDpsConfig.get_value
GetValue(entity, x, raw, depth) ==
    IF depth > RecursionLimit THEN Raised("RecursionError", depth)
    ELSE MapFromDps(entity, x, GetProperty(raw, DpsId(entity.dps[x])), raw, depth)

\* the range test, had it turned away minimum and maximum themselves
OutOfRangeOrAtEnd(result, r) ==
    result.n <= r.min * result.d \/ result.n >= r.max * result.d

\* result < minimum or result > maximum, for a number
OutOfRange(result, r) == result.n < r.min * result.d \/ result.n > r.max * result.d

\* the conversion of the result to the type of the dps, at the end of
\* get_values_to_set: the value, or the exception raised
Coerce(type, result) ==
    CASE type = "int" ->
           IF IsNumber(result)
           THEN [err |-> "none", val |-> I(PyRound(result.n, result.d))]
           ELSE [err |-> "TypeError", val |-> None]
      [] type = "bool" -> [err |-> "none", val |-> B(Truthy(result))]
      [] type = "float" ->
           IF IsNumber(result) THEN [err |-> "none", val |-> F(result.n, result.d)]
           ELSE IF result.t = "str" /\ FloatParses(result.s)
                THEN [err |-> "none", val |-> FloatOf(result.s)]
           ELSE IF result.t = "str" THEN [err |-> "ValueError", val |-> None]
           ELSE [err |-> "TypeError", val |-> None]
      [] OTHER -> [err |-> "none", val |-> S(PyStr(result))]

\* the exception get_values_to_set raises for a value out of the range
RangeViolation == "ValueError: must be between"

\* the end of get_values_to_set, had it returned a map of its own and
\* left out what the condition's side effect has set
CheckAndSetAlone(entity, x, raw, result, dps_map, depth) ==
    LET d == entity.dps[x]
        r == Range(entity, d, raw)
        co == Coerce(DpsType(d), result)
        final == IF Stringify(d) THEN S(PyStr(co.val)) ELSE co.val
    IN  IF r # NoRange /\ ~IsNumber(result) THEN Raised("TypeError", depth)
        ELSE IF r # NoRange /\ OutOfRange(result, r) THEN Raised(RangeViolation, depth)
        ELSE IF co.err # "none" THEN Raised(co.err, depth)
        ELSE ReturnedMap(DpsId(d) :> final, depth)

\* get_values_to_set from the range check on: result is what the mapping
\* made of the value, dps_map what a condition's side effect has set
CheckAndSet(entity, x, raw, result, dps_map, depth) ==
    LET d == entity.dps[x]
        r == Range(entity, d, raw)
        co == Coerce(DpsType(d), result)
        final == IF Stringify(d) THEN S(PyStr(co.val)) ELSE co.val
    IN  IF r # NoRange /\ ~IsNumber(result) THEN Raised("TypeError", depth)
        ELSE IF r # NoRange /\ OutOfRange(result, r) THEN Raised(RangeViolation, depth)
        ELSE IF co.err # "none" THEN Raised(co.err, depth)
        ELSE ReturnedMap((DpsId(d) :> final) @@ dps_map, depth)

\* a call's answer, its depth raised to that of a call made before it
Deepened(r, depth) == [r EXCEPT !.depth = IF depth > @ THEN depth ELSE @]

\* the redirect in force in get_values_to_set for the i-th mapping: its
\* active condition's, else its own, "" when there is none
WriteRedirect(entity, d, raw, i) ==
    LET m == Mapping(d)[i]
        c == ActiveCondition(entity, m, raw)
        redirect == Get(m, "value_redirect", "")
    IN  IF c = 0 THEN redirect ELSE Get(m.conditions[c], "value_redirect", redirect)

\* what get_values_to_set makes of the value with the i-th mapping: the
\* mapping's dps_val in its place, scaled, then rounded to the step, the
\* active condition's scale and step before the mapping's
WriteResult(entity, d, raw, value, i) ==
    LET m == Mapping(d)[i]
        c == ActiveCondition(entity, m, raw)
        cond == m.conditions[c]
        result1 == Get(m, "dps_val", value)
        scale1 == Get(m, "scale", 1)
        scale == IF c = 0 THEN scale1 ELSE Get(cond, "scale", scale1)
        step1 == Get(m, "step", 0)
        step == IF c = 0 THEN step1 ELSE Get(cond, "step", step1)
        result2 == IF scale # 1 /\ IsNumber(result1)
                   THEN IF result1.t = "float" THEN F(result1.n * scale, result1.d)
                        ELSE I(result1.n * scale)
                   ELSE result1
    IN  IF step # 0 /\ IsNumber(result2)
        THEN I(step * PyRound(result2.n, result2.d * step)) ELSE result2

RECURSIVE GetValuesToSet(_, _, _, _, _)
RECURSIVE SetThroughMapping(_, _, _, _, _, _, _)
RECURSIVE SetThroughMappingResult(_, _, _, _, _, _, _)
RECURSIVE SetThroughMappingSelf(_, _, _, _, _, _, _)

\* SetThroughMapping, had it handed the redirect's dps the result it
\* computed in place of the value
SetThroughMappingResult(entity, x, raw, value, i, depth, c_set) ==
    LET d == entity.dps[x]
        redirect == WriteRedirect(entity, d, raw, i)
        r_dps == FindDps(entity, redirect)
        result == WriteResult(entity, d, raw, value, i)
    IN  IF c_set.err # "none" THEN c_set
        ELSE IF redirect # ""
             THEN IF r_dps = 0 THEN Raised("AttributeError", c_set.depth)
                  ELSE Deepened(GetValuesToSet(entity, r_dps, raw, result, depth + 1),
                                c_set.depth)
        ELSE CheckAndSet(entity, x, raw, result, c_set.map, c_set.depth)

\* SetThroughMapping, had it asked the dps itself, not the redirect's dps
SetThroughMappingSelf(entity, x, raw, value, i, depth, c_set) ==
    LET d == entity.dps[x]
        redirect == WriteRedirect(entity, d, raw, i)
        r_dps == FindDps(entity, redirect)
        result == WriteResult(entity, d, raw, value, i)
    IN  IF c_set.err # "none" THEN c_set
        ELSE IF redirect # ""
             THEN IF r_dps = 0 THEN Raised("AttributeError", c_set.depth)
                  ELSE Deepened(GetValuesToSet(entity, x, raw, value, depth + 1),
                                c_set.depth)
        ELSE CheckAndSet(entity, x, raw, result, c_set.map, c_set.depth)

\* get_values_to_set once the mapping for the value is found (the i-th)
\* and its active condition has had its side effect: c_set is what
\* get_values_to_set of the constraint dps returned, an empty map when
\* the condition sets nothing
SetThroughMapping(entity, x, raw, value, i, depth, c_set) ==
    LET d == entity.dps[x]
        redirect == WriteRedirect(entity, d, raw, i)
        r_dps == FindDps(entity, redirect)
        result == WriteResult(entity, d, raw, value, i)
    IN  IF c_set.err # "none" THEN c_set
        ELSE IF redirect # ""
             THEN IF r_dps = 0 THEN Raised("AttributeError", c_set.depth)
                  ELSE Deepened(GetValuesToSet(entity, r_dps, raw, value, depth + 1),
                                c_set.depth)
        ELSE CheckAndSet(entity, x, raw, result, c_set.map, c_set.depth)

\* TuyaDpsConfig.get_values_to_set
GetValuesToSet(entity, x, raw, value, depth) ==
    LET d == entity.dps[x]
        i == FindMapForValue(d, value)
        m == Mapping(d)[i]
        c == ActiveCondition(entity, m, raw)
        cond == m.conditions[c]
    IN  IF depth > RecursionLimit THEN Raised("RecursionError", depth)
        ELSE IF i = 0 THEN CheckAndSet(entity, x, raw, value, <<>>, depth)
        ELSE IF c # 0 /\ PyEq(Get(cond, "value", None), value)
             THEN SetThroughMapping(entity, x, raw, value, i, depth,
                      GetValuesToSet(entity, FindDps(entity, m.constraint), raw,
                                     cond.dps_val, depth + 1))
        ELSE SetThroughMapping(entity, x, raw, value, i, depth,
                               ReturnedMap(<<>>, depth))

-----------------------------------------------------------------------------
(* The state: the config loaded, the dps map the device has reported, the  *)
(* dps maps handed to device.async_set_properties and not yet taken by the *)
(* device, and what the last call into the config returned.                *)

Idle == [op |-> "none"]

\* the device takes the write handed to it, which async_set_value awaits;
\* what it then holds arrives with its next report
DeviceTakes ==
    /\ sent # <<>>
    /\ sent' = Tail(sent)
    /\ last' = Idle
    /\ UNCHANGED <<config, dps>>

\* the caller asks TuyaDeviceConfig.matches of the dps map
DoMatches ==
    /\ last = Idle
    /\ last' = [op |-> "matches", result |-> Matches(config, dps)]
    /\ UNCHANGED <<config, dps, sent>>

\* the caller asks TuyaDeviceConfig.match_quality of the dps map
DoMatchQuality ==
    /\ last = Idle
    /\ last' = [op |-> "match_quality", result |-> MatchQuality(config, dps)]
    /\ UNCHANGED <<config, dps, sent>>

\* the caller asks TuyaDpsConfig.get_value of the x-th dps of the primary entity
DoGetValue(x) ==
    /\ last = Idle
    /\ last' = [op |-> "get_value", x |-> x,
                result |-> GetValue(PrimaryEntity(config), x, dps, 1)]
    /\ UNCHANGED <<config, dps, sent>>

\* the caller asks TuyaDpsConfig.get_values_to_set
DoGetValuesToSet(x, value) ==
    /\ last = Idle
    /\ last' = [op |-> "get_values_to_set", x |-> x, value |-> value,
                result |-> GetValuesToSet(PrimaryEntity(config), x, dps, value, 1)]
    /\ UNCHANGED <<config, dps, sent>>

\* the caller sets the dps to the value get_value has just returned
DoWriteBack ==
    /\ last.op = "get_value"
    /\ last.result.err = "none"
    /\ last' = [op |-> "write_back", x |-> last.x, value |-> last.result.val,
                result |-> GetValuesToSet(PrimaryEntity(config), last.x, dps,
                                          last.result.val, 1)]
    /\ UNCHANGED <<config, dps, sent>>

\* async_set_value, had it not asked invalid_for
SetValueOutcomeUnasked(entity, x, value, raw) ==
    LET d == entity.dps[x]
        settings == GetValuesToSet(entity, x, raw, value, 1)
    IN  IF Readonly(d) THEN [err |-> "TypeError: is read only", calls |-> <<>>]
        ELSE IF settings.err # "none" THEN [err |-> settings.err, calls |-> <<>>]
        ELSE [err |-> "none", calls |-> <<settings.map>>]

\* what TuyaDpsConfig.async_set_value does: the exception it raises and
\* the dps maps it hands to device.async_set_properties, in order
SetValueOutcome(entity, x, value, raw) ==
    LET d == entity.dps[x]
        settings == GetValuesToSet(entity, x, raw, value, 1)
    IN  IF Readonly(d) THEN [err |-> "TypeError: is read only", calls |-> <<>>]
        ELSE IF InvalidFor(entity, d, value, raw)
             THEN [err |-> "AttributeError: cannot be set at this time",
                   calls |-> <<>>]
        ELSE IF settings.err # "none" THEN [err |-> settings.err, calls |-> <<>>]
        ELSE [err |-> "none", calls |-> <<settings.map>>]

\* TuyaDpsConfig.async_set_value
AsyncSetValue(x, value) ==
    /\ last = Idle
    /\ \E out \in {SetValueOutcome(PrimaryEntity(config), x, value, dps)} :
           /\ sent' = sent \o out.calls
           /\ last' = [op |-> "async_set_value", x |-> x, value |-> value,
                       err |-> out.err, calls |-> out.calls]
    /\ UNCHANGED <<config, dps>>

-----------------------------------------------------------------------------
(* Matching a config against the dps map a device reports *)

\* the ids the configs declare; a device may report further ids
DeclaredIds == {1, 2}
DeclaredTypes == {"boolean", "integer", "float", "string"}

MatchDps ==
    {[id |-> i, type |-> t, name |-> "dps" \o ToString(i)] :
        i \in DeclaredIds, t \in DeclaredTypes}
      \cup {[id |-> 2, type |-> "bitfield", name |-> "dps2"]}

MatchPrimaries ==
    {<<>>} \cup {<<p>> : p \in MatchDps}
      \cup {<<p, q>> : p \in {m \in MatchDps : m.id = 1},
                       q \in {m \in MatchDps : m.id = 2}}

MatchSecondaries ==
    {<<>>, <<[entity |-> "sensor", dps |-> <<>>]>>}
      \cup {<<[entity |-> "sensor", dps |-> <<p>>]>> :
               p \in {m \in MatchDps : m.type \notin {"float", "string"}}}

MatchConfigs ==
    {[name |-> "device", primary_entity |-> [entity |-> "climate", dps |-> p]] :
        p \in MatchPrimaries}
      \cup {[name |-> "device",
             primary_entity |-> [entity |-> "climate", dps |-> p],
             secondary_entities |-> e] :
               p \in MatchPrimaries, e \in MatchSecondaries \ {<<>>}}

\* what a device reports under a key
ReportedValues(k) ==
    IF k = "updated_at" THEN {I(123)}
    ELSE IF \E i \in DeclaredIds : ToString(i) = k
         THEN {B(TRUE), I(5), F(5, 2), S("42"), S("abc")}
    ELSE {I(0)}

\* the undeclared ids are reported lowest first: which of them a device
\* holds does not matter to a config, only how many
ReportedKeys ==
    {"updated_at"} \cup {ToString(i) : i \in DeclaredIds}
      \cup {ToString(i) : i \in {j \in 1 .. MaxKeys :
                                   /\ j \notin DeclaredIds
                                   /\ \/ j - 1 \in DeclaredIds
                                      \/ ToString(j - 1) \in DOMAIN dps}}

\* the device reports the value of one dps
Report(k, v) ==
    /\ sent = <<>>
    /\ dps' = (k :> v) @@ dps
    /\ last' = Idle
    /\ UNCHANGED <<config, sent>>

InitMatch ==
    /\ config \in MatchConfigs
    /\ dps = <<>>
    /\ sent = <<>>
    /\ last = Idle

NextMatch ==
    \/ \E k \in ReportedKeys : \E v \in ReportedValues(k) : Report(k, v)
    \/ DoMatches
    \/ DoMatchQuality

SpecMatch == InitMatch /\ [][NextMatch]_vars

-----------------------------------------------------------------------------
(* Claims about matching, checked under SpecMatch *)

\* every dps the config declares, primary entity first
DeclaredDps(cfg) ==
    {PrimaryEntity(cfg).dps[i] : i \in 1 .. Len(PrimaryEntity(cfg).dps)}
      \cup UNION {{SecondaryEntities(cfg)[e].dps[i] :
                      i \in 1 .. Len(SecondaryEntities(cfg)[e].dps)} :
                  e \in 1 .. Len(SecondaryEntities(cfg))}

\* the type rule as the specification words it
ParsesAs(type, str) ==
    CASE type = "int" -> IntParses(str)
      [] type = "float" -> FloatParses(str)
      [] OTHER -> TRUE

TypeCompatible(type, v) ==
    \/ v.t = type
    \/ v.t = "str" /\ type # "bool" /\ ParsesAs(type, v.s)

Explained(d, raw) ==
    DpsId(d) \in DOMAIN raw /\ TypeCompatible(DpsType(d), raw[DpsId(d)])

\* C2: matches(raw) is true exactly when every dps declared by the primary
\* and the secondary entities has its id in raw with a value compatible
\* with its type: a value of that very type (a bool is no integer), or a
\* string that parses as the type, the type not being boolean.
C2_MatchesIffAllExplained ==
    last.op = "matches" =>
        (last.result <=> \A d \in DeclaredDps(config) : Explained(d, dps))

\* C2 happens: an integer dps reported as the string "42" matched, next to
\* a secondary entity's dps
C2_Witness ==
    /\ last.op = "matches"
    /\ last.result
    /\ SecondaryEntities(config) # <<>>
    /\ \E d \in DeclaredDps(config) :
           /\ d.type = "integer"
           /\ DpsId(d) \in DOMAIN dps
           /\ dps[DpsId(d)] = S("42")

DeclaredIdsOf(cfg) == {DpsId(d) : d \in DeclaredDps(cfg)}
ScoredKeys(raw) == DOMAIN raw \ {"updated_at"}

\* q is 100 * n / total rounded to a nearest integer
NearestPercent(q, n, total) ==
    /\ 2 * (q * total - 100 * n) <= total
    /\ 2 * (100 * n - q * total) <= total

\* C3: with a key besides "updated_at" in raw, match_quality is 0 when a
\* declared dps is missing from raw or of the wrong type, and else the
\* rounded percentage of the keys of raw that are distinct declared ids;
\* an id two entities declare counts once; the score lies in 0..100.
C3_MatchQualityScore ==
    (last.op = "match_quality" /\ ScoredKeys(dps) # {}) =>
        /\ last.result.err = "none"
        /\ last.result.val \in 0 .. 100
        /\ IF \E d \in DeclaredDps(config) : ~Explained(d, dps)
           THEN last.result.val = 0
           ELSE NearestPercent(last.result.val,
                               Cardinality(DeclaredIdsOf(config)),
                               Cardinality(ScoredKeys(dps)))

\* C3 happens: an id declared by the primary and by a secondary entity,
\* scored once among further keys
C3_Witness ==
    /\ last.op = "match_quality"
    /\ "updated_at" \in DOMAIN dps
    /\ SecondaryEntities(config) # <<>>
    /\ \E i \in 1 .. Len(PrimaryEntity(config).dps) :
       \E j \in 1 .. Len(SecondaryEntities(config)[1].dps) :
           PrimaryEntity(config).dps[i].id = SecondaryEntities(config)[1].dps[j].id
    /\ last.result.val = 33
    /\ Cardinality(DeclaredIdsOf(config)) = 1

\* C4: with no key besides "updated_at" in raw, match_quality returns 0
\* and raises nothing, also for a config that declares no dps.
C4_EmptySnapshotScoresZero ==
    ((last.op = "match_quality" /\ ScoredKeys(dps) = {}) =>
        (last.result.err = "none" /\ last.result.val = 0))

-----------------------------------------------------------------------------
(* Translating values: configs of one entity with the dps a (id 1), b (id  *)
(* 2) and c (id 3).  The mappings of a are put together from the keys a    *)
(* mapping and a condition may state; b and c are what a redirects to and  *)
(* is constrained by.                                                      *)

ConditionPool ==
    { [dps_val |-> I(1), value |-> S("eco")],
      [dps_val |-> I(1), invalid |-> TRUE],
      [dps_val |-> I(1), value_redirect |-> "b"],
      [dps_val |-> I(1), range |-> [min |-> 5, max |-> 6]],
      [dps_val |-> I(1), value |-> I(5), scale |-> 10],
      [dps_val |-> I(1), value |-> I(5), value_redirect |-> "b"],
      [dps_val |-> I(1), value |-> S("eco"), step |-> 5,
       mapping |-> <<[dps_val |-> S("eco"), value |-> S("night")]>>] }

ConditionLists ==
    {<<k>> : k \in ConditionPool}
      \cup {<<[dps_val |-> I(2), invalid |-> TRUE],
              [dps_val |-> I(1), value |-> S("eco")]>>}

MappingBases ==
    {<<>>, [dps_val |-> I(1)], [dps_val |-> I(1), value |-> S("on")]}

MappingExtras ==
    { <<>>, [scale |-> 10], [step |-> 5],
      [range |-> [min |-> 5, max |-> 10]], [range |-> [min |-> 6]],
      [value_redirect |-> "b"],
      [value_redirect |-> "b", constraint |-> "c",
       conditions |-> <<[dps_val |-> I(1), value_redirect |-> "c"]>>],
      [value_redirect |-> "b", constraint |-> "c",
       conditions |-> <<[dps_val |-> I(1), value |-> I(6)]>>] }
      \cup {[constraint |-> "c", conditions |-> l] : l \in ConditionLists}

MappingsOfA ==
    {<<base @@ extra>> : base \in MappingBases, extra \in MappingExtras}
      \cup {<<[dps_val |-> I(1), value |-> S("on")] @@ extra, second>> :
               extra \in {<<>>, [value_redirect |-> "b"]},
               second \in {[scale |-> 10], [dps_val |-> I(5), value |-> S("off")]}}

DpsA ==
    LET a == [id |-> 1, type |-> "integer", name |-> "a"]
    IN  {a @@ opts @@ [mapping |-> m] :
            opts \in {<<>>, [range |-> [min |-> 1, max |-> 5]], [readonly |-> TRUE]},
            m \in MappingsOfA}
          \cup {a}

DpsB ==
    LET b == [id |-> 2, type |-> "integer", name |-> "b"]
    IN  { b,
          b @@ [stringify |-> TRUE, range |-> [min |-> 1, max |-> 50],
                mapping |-> <<[scale |-> 10]>>],
          b @@ [mapping |-> <<[value_redirect |-> "a"]>>],
          b @@ [mapping |-> <<[value_redirect |-> "c"]>>] }

DpsC ==
    LET c == [id |-> 3, type |-> "integer", name |-> "c"]
    IN  { c,
          c @@ [range |-> [min |-> 1, max |-> 5], mapping |-> <<[scale |-> 10]>>],
          c @@ [mapping |-> <<[value_redirect |-> "b"]>>] }

PlainB == [id |-> 2, type |-> "integer", name |-> "b"]
PlainC == [id |-> 3, type |-> "integer", name |-> "c"]

ValueConfigs ==
    {[name |-> "device",
      primary_entity |-> [entity |-> "climate", dps |-> <<a, bc[1], bc[2]>>]] :
        a \in DpsA,
        bc \in {p \in DpsB \X DpsC : p[1] = PlainB \/ p[2] = PlainC}}

\* the values a caller asks a dps to be set to
NewValues == {I(1), I(5), I(6), S("on"), S("eco"), S("5")}

\* what the device reports for the dps a and c; it always holds b and c
ValueReports == {<<"1", I(1)>>, <<"1", I(5)>>, <<"3", I(1)>>, <<"3", I(2)>>}

NumDps == Len(PrimaryEntity(config).dps)

InitValue ==
    /\ config \in ValueConfigs
    /\ dps = ("2" :> I(5)) @@ ("3" :> I(2))
    /\ sent = <<>>
    /\ last = Idle

NextValue ==
    \/ \E r \in ValueReports : Report(r[1], r[2])
    \/ \E x \in 1 .. NumDps : DoGetValue(x)
    \/ \E x \in 1 .. NumDps : \E v \in NewValues : DoGetValuesToSet(x, v)
    \/ \E x \in 1 .. NumDps : \E v \in NewValues : AsyncSetValue(x, v)
    \/ DeviceTakes

SpecValue == InitValue /\ [][NextValue]_vars

-----------------------------------------------------------------------------
(* Claims about translating values, checked under SpecValue *)

Entity == PrimaryEntity(config)

\* the dps the last call was made on
LastDps == Entity.dps[last.x]

\* C1: async_set_value hands at most one dps map to the device; none when
\* the dps is readonly, when invalid_for holds or when get_values_to_set
\* raises the range violation (or anything else); and the one map it
\* hands over is the whole map get_values_to_set returned.
C1_OneWriteAfterValidation ==
    last.op = "async_set_value" =>
        LET settings == GetValuesToSet(Entity, last.x, dps, last.value, 1)
        IN  /\ Len(last.calls) <= 1
            /\ sent = last.calls
            /\ (\/ Readonly(LastDps)
                \/ InvalidFor(Entity, LastDps, last.value, dps)
                \/ settings.err # "none") => last.calls = <<>>
            /\ last.calls # <<>> => last.calls[1] = settings.map
            /\ (last.err = "none") <=> (last.calls # <<>>)

\* C1 happens: one call handed the device a map with the dps's own entry
\* and a condition's side effect
C1_Witness ==
    /\ last.op = "async_set_value"
    /\ Len(last.calls) = 1
    /\ DOMAIN last.calls[1] = {"1", "3"}
    /\ sent = last.calls

\* the raw value get_values_to_set computes for the dps itself, as the
\* specification words it: the mapping's dps_val for the value, scaled,
\* then rounded to the step, the active condition's scale and step
\* before the mapping's
ComputedRaw(entity, d, raw, value) ==
    LET i == FindMapForValue(d, value)
        m == Mapping(d)[i]
        c == ActiveCondition(entity, m, raw)
        over == IF c = 0 THEN <<>> ELSE m.conditions[c]
        scale == Get(over, "scale", Get(m, "scale", 1))
        step == Get(over, "step", Get(m, "step", 0))
        substituted == Get(m, "dps_val", value)
        scaled == IF IsNumber(substituted)
                  THEN F(substituted.n * scale, substituted.d) ELSE substituted
    IN  IF i = 0 THEN value
        ELSE IF step # 0 /\ IsNumber(scaled)
             THEN I(step * PyRound(scaled.n, scaled.d * step))
        ELSE scaled

\* the computed raw value lies strictly below min or strictly above max of
\* the range in force
OwnRangeViolated(entity, d, raw, value) ==
    LET r == Range(entity, d, raw)
        v == ComputedRaw(entity, d, raw, value)
    IN  r # NoRange /\ IsNumber(v) /\ (v.n < r.min * v.d \/ v.n > r.max * v.d)

\* C5 as stated: get_values_to_set raises the range violation exactly when
\* a range is in force and the computed raw value lies outside it.
C5_Original ==
    last.op = "get_values_to_set" =>
        ((last.result.err = RangeViolation)
            <=> OwnRangeViolated(Entity, LastDps, dps, last.value))

\* the mapping found for the value last asked to be set, its active
\* condition, and the redirect in force (the condition's before the
\* mapping's)
LastMap == FindMapForValue(LastDps, last.value)
LastCond ==
    IF LastMap = 0 THEN 0
    ELSE ActiveCondition(Entity, Mapping(LastDps)[LastMap], dps)
LastRedirect ==
    IF LastMap = 0 THEN ""
    ELSE LET m == Mapping(LastDps)[LastMap]
         IN  IF LastCond = 0 THEN Get(m, "value_redirect", "")
             ELSE Get(m.conditions[LastCond], "value_redirect",
                      Get(m, "value_redirect", ""))
\* the active condition's value is the value asked for: the constraint
\* dps is set as a side effect
LastSideEffect ==
    /\ LastCond # 0
    /\ PyEq(Get(Mapping(LastDps)[LastMap].conditions[LastCond], "value", None),
            last.value)
\* what get_values_to_set of the constraint dps returns for the side effect
LastSideSet ==
    LET m == Mapping(LastDps)[LastMap]
    IN  GetValuesToSet(Entity, FindDps(Entity, m.constraint), dps,
                       m.conditions[LastCond].dps_val, 1)
\* what get_values_to_set of the redirect's dps returns for the value
LastRedirectSet ==
    GetValuesToSet(Entity, FindDps(Entity, LastRedirect), dps, last.value, 1)

\* C5 as amended: get_values_to_set raises the range violation exactly
\* when the side-effect call on the constraint dps raises it, or else a
\* redirect is in force and the call on the redirect's dps raises it, or
\* else no redirect is in force, a range is and the computed raw value
\* lies strictly outside it (min and max themselves pass); the dps's own
\* range is not looked at under a redirect.  Whenever it raises, no map
\* is returned.
C5_RangeViolation ==
    last.op = "get_values_to_set" =>
        /\ (last.result.err = RangeViolation) <=>
               IF LastSideEffect /\ LastSideSet.err # "none"
               THEN LastSideSet.err = RangeViolation
               ELSE IF LastRedirect # ""
               THEN /\ FindDps(Entity, LastRedirect) # 0
                    /\ LastRedirectSet.err = RangeViolation
               ELSE OwnRangeViolated(Entity, LastDps, dps, last.value)
        /\ last.result.err # "none" => last.result.map = <<>>

\* C5 happens: a side-effect entry was computed, and then the dps's own
\* value lay outside the range in force
C5_Witness ==
    /\ last.op = "get_values_to_set"
    /\ last.result.err = RangeViolation
    /\ last.result.map = <<>>
    /\ LastSideEffect
    /\ LastSideSet.err = "none"
    /\ LastRedirect = ""

\* C5 happens at the ends of the range: min and max are accepted
C5_WitnessBoundary ==
    /\ last.op = "get_values_to_set"
    /\ last.result.err = "none"
    /\ Range(Entity, LastDps, dps) # NoRange
    /\ ComputedRaw(Entity, LastDps, dps, last.value).n
         = Range(Entity, LastDps, dps).max


\* C6 as stated: when the active condition of the mapping found for the
\* value has that value, the map returned holds an entry for the dps
\* itself and every entry get_values_to_set of the constraint dps returns
\* for the condition's dps_val, that of the constraint dps among them;
\* otherwise the constraint dps adds no entry (with no redirect in force
\* the map holds the dps's own entry alone).
C6_Original ==
    (last.op = "get_values_to_set" /\ last.result.err = "none") =>
        IF LastSideEffect
        THEN /\ DpsId(LastDps) \in DOMAIN last.result.map
             /\ LastSideSet.err = "none"
             /\ \A k \in DOMAIN LastSideSet.map :
                    /\ k \in DOMAIN last.result.map
                    /\ last.result.map[k] = LastSideSet.map[k]
             /\ DpsId(Entity.dps[FindDps(Entity,
                    Mapping(LastDps)[LastMap].constraint)])
                  \in DOMAIN last.result.map
        ELSE LastRedirect = "" => DOMAIN last.result.map = {DpsId(LastDps)}

\* C6 as amended: with no redirect in force, the map returned holds the
\* dps's own entry and, when the active condition of the mapping found
\* for the value has that value, besides it exactly the entries that
\* get_values_to_set of the constraint dps returns for the condition's
\* dps_val (one for the constraint dps itself unless that dps redirects
\* its writes); when no active condition has the value it holds the own
\* entry alone.  With a redirect in force the map is the one the
\* redirect's dps returns: the side-effect entries are dropped and the
\* dps has no entry of its own.
C6_SideEffectMerged ==
    (last.op = "get_values_to_set" /\ last.result.err = "none") =>
        IF LastRedirect # "" THEN last.result.map = LastRedirectSet.map
        ELSE IF LastSideEffect
        THEN /\ LastSideSet.err = "none"
             /\ DOMAIN last.result.map
                  = DOMAIN LastSideSet.map \cup {DpsId(LastDps)}
             /\ \A k \in DOMAIN LastSideSet.map \ {DpsId(LastDps)} :
                    last.result.map[k] = LastSideSet.map[k]
        ELSE DOMAIN last.result.map = {DpsId(LastDps)}

\* C6 happens: writing a sets c as a side effect
C6_Witness ==
    /\ last.op = "get_values_to_set"
    /\ last.x = 1
    /\ last.result.err = "none"
    /\ LastSideEffect
    /\ LastRedirect = ""
    /\ DOMAIN last.result.map = {"1", "3"}

\* the mapping found for the value the device holds for the dps of the
\* last call
ReadMap == FindMapForDps(LastDps, GetProperty(dps, DpsId(LastDps)))
ReadCond ==
    IF ReadMap = 0 THEN 0
    ELSE ActiveCondition(Entity, Mapping(LastDps)[ReadMap], dps)

\* the dps a mapping redirects to, 0 when it has no dps_val or no redirect
\* or names no dps
RedirectOf(m) ==
    IF Has(m, "dps_val") /\ Has(m, "value_redirect")
    THEN FindDps(Entity, m.value_redirect) ELSE 0

SameAnswer(r1, r2) == r1.err = r2.err /\ r1.val = r2.val /\ r1.map = r2.map

\* C7 as stated: when the mapping with the dps_val the device holds
\* redirects to b and no active condition marks it invalid, get_value is
\* b's get_value; and for a value that finds a mapping with a dps_val and
\* a redirect to b, get_values_to_set is b's get_values_to_set.
C7_Original ==
    /\ (/\ last.op = "get_value"
        /\ ReadMap # 0
        /\ RedirectOf(Mapping(LastDps)[ReadMap]) # 0
        /\ ~(ReadCond # 0 /\ Get(Mapping(LastDps)[ReadMap].conditions[ReadCond],
                                  "invalid", FALSE)))
         => SameAnswer(last.result,
                       GetValue(Entity, RedirectOf(Mapping(LastDps)[ReadMap]),
                                dps, 1))
    /\ (/\ last.op = "get_values_to_set"
        /\ LastMap # 0
        /\ RedirectOf(Mapping(LastDps)[LastMap]) # 0)
         => SameAnswer(last.result,
                       GetValuesToSet(Entity, RedirectOf(Mapping(LastDps)[LastMap]),
                                      dps, last.value, 1))

\* C7 as amended: the same, provided the active condition of the mapping,
\* if there is one, states no redirect of its own; and on the write side,
\* when the active condition has the value asked for and the side-effect
\* call on the constraint dps raises, get_values_to_set raises that
\* exception instead.
C7_RedirectDelegates ==
    /\ (/\ last.op = "get_value"
        /\ ReadMap # 0
        /\ RedirectOf(Mapping(LastDps)[ReadMap]) # 0
        /\ ReadCond # 0 =>
              LET cond == Mapping(LastDps)[ReadMap].conditions[ReadCond]
              IN  ~Get(cond, "invalid", FALSE) /\ ~Has(cond, "value_redirect"))
         => SameAnswer(last.result,
                       GetValue(Entity, RedirectOf(Mapping(LastDps)[ReadMap]),
                                dps, 1))
    /\ (/\ last.op = "get_values_to_set"
        /\ LastMap # 0
        /\ RedirectOf(Mapping(LastDps)[LastMap]) # 0
        /\ LastCond # 0 =>
              ~Has(Mapping(LastDps)[LastMap].conditions[LastCond], "value_redirect"))
         => IF LastSideEffect /\ LastSideSet.err # "none"
            THEN last.result.err = LastSideSet.err /\ last.result.map = <<>>
            ELSE SameAnswer(last.result,
                     GetValuesToSet(Entity, RedirectOf(Mapping(LastDps)[LastMap]),
                                    dps, last.value, 1))

\* C7 happens: a value written to a went to b, a's own range unused
C7_Witness ==
    /\ last.op = "get_values_to_set"
    /\ last.x = 1
    /\ LastMap # 0
    /\ RedirectOf(Mapping(LastDps)[LastMap]) = 2
    /\ Has(LastDps, "range")
    /\ last.value = I(6)
    /\ last.result.err = "none"
    /\ DOMAIN last.result.map = {"2"}

\* C7 happens on the read side: a's value is b's
C7_WitnessRead ==
    /\ last.op = "get_value"
    /\ last.x = 1
    /\ ReadMap # 0
    /\ RedirectOf(Mapping(LastDps)[ReadMap]) = 2
    /\ last.result.err = "none"
    /\ last.result.val = F(1, 2)

\* findRuleForSemantic as the specification words it: the first mapping
\* whose value, or one of whose conditions' values, prints as the value
\* does; else the first mapping with no dps_val; else none
FirstRuleForSemantic(d, value) ==
    LET M == Mapping(d)
        hits == {i \in 1 .. Len(M) :
                    \/ Has(M[i], "value") /\ PyStr(M[i].value) = PyStr(value)
                    \/ \E c \in 1 .. Len(Conditions(M[i])) :
                           /\ Has(Conditions(M[i])[c], "value")
                           /\ PyStr(Conditions(M[i])[c].value) = PyStr(value)}
        defaults == {i \in 1 .. Len(M) : ~Has(M[i], "dps_val")}
    IN  IF hits # {} THEN SetMin(hits)
        ELSE IF defaults # {} THEN SetMin(defaults)
        ELSE 0

\* C9: the mapping get_values_to_set and invalid_for work with is the one
\* findRuleForSemantic describes.
C9_FindRuleForSemantic ==
    last.op \in {"get_values_to_set", "async_set_value"} =>
        FindMapForValue(LastDps, last.value)
          = FirstRuleForSemantic(LastDps, last.value)

\* the dps a dps refers to: the redirects of its mappings and of their
\* conditions, and the constraints of its mappings
RefsOf(d) ==
    LET M == Mapping(d)
        names == {M[i].value_redirect : i \in {j \in 1 .. Len(M) :
                                                Has(M[j], "value_redirect")}}
                  \cup {M[i].constraint : i \in {j \in 1 .. Len(M) :
                                                Has(M[j], "constraint")}}
                  \cup UNION {{Conditions(M[i])[c].value_redirect :
                                 c \in {k \in 1 .. Len(Conditions(M[i])) :
                                          Has(Conditions(M[i])[k], "value_redirect")}} :
                              i \in 1 .. Len(M)}
    IN  {FindDps(Entity, n) : n \in names} \ {0}

RECURSIVE ReachedIn(_, _)
\* the dps reached from the dps in X along at most n references
ReachedIn(X, n) ==
    IF n = 0 THEN X
    ELSE ReachedIn(X \cup UNION {RefsOf(Entity.dps[x]) : x \in X}, n - 1)

Acyclic ==
    \A x \in 1 .. NumDps :
        x \notin ReachedIn(RefsOf(Entity.dps[x]), NumDps)

\* C10: when the redirects and constraints among the dps of the entity
\* form no cycle, get_value and get_values_to_set return or raise without
\* running into the recursion limit, nesting at most as deep as the
\* entity has dps.
C10_AcyclicTerminates ==
    (last.op \in {"get_value", "get_values_to_set"} /\ Acyclic) =>
        /\ last.result.err # "RecursionError"
        /\ last.result.depth <= NumDps

\* C10 happens: a chain through all three dps
C10_Witness ==
    /\ last.op = "get_values_to_set"
    /\ Acyclic
    /\ last.result.err = "none"
    /\ last.result.depth = NumDps

\* C10, the other half: a redirect that leads back never ends by itself
C10_WitnessCycle ==
    /\ last.op = "get_value"
    /\ ~Acyclic
    /\ last.result.err = "RecursionError"

-----------------------------------------------------------------------------
(* Reading a value and writing it back: configs of one entity with the one *)
(* dps p (id 1), its mappings without conditions, redirects and steps.     *)

RoundRules ==
    {base @@ val @@ sc :
        base \in {<<>>, [dps_val |-> I(1)], [dps_val |-> I(5)]},
        val \in {<<>>, [value |-> S("on")], [value |-> S("off")],
                 [value |-> I(5)], [value |-> S("5")]},
        sc \in {<<>>, [scale |-> 10]}}

RoundMappings ==
    {<<r>> : r \in RoundRules} \cup {<<r, q>> : r \in RoundRules, q \in RoundRules}

RoundConfigs ==
    {[name |-> "device",
      primary_entity |->
          [entity |-> "climate",
           dps |-> <<[id |-> 1, type |-> t, name |-> "p"] @@ opts
                       @@ [mapping |-> m]>>]] :
        t \in {"integer", "string"},
        opts \in {<<>>, [range |-> [min |-> 1, max |-> 5]], [stringify |-> TRUE]},
        m \in RoundMappings}

RoundReports == {I(1), I(5), I(25)}

InitRound ==
    /\ config \in RoundConfigs
    /\ dps = <<>>
    /\ sent = <<>>
    /\ last = Idle

NextRound ==
    \/ \E v \in RoundReports : Report("1", v)
    \/ DoGetValue(1)
    \/ DoWriteBack

SpecRound == InitRound /\ [][NextRound]_vars

\* the mapping of the dps p, and those of its rules that have a dps_val
P == Entity.dps[1]
RawRules == {i \in 1 .. Len(Mapping(P)) : Has(Mapping(P)[i], "dps_val")}
ValueRules == {i \in 1 .. Len(Mapping(P)) : Has(Mapping(P)[i], "value")}

\* what C8 asks of a mapping: the dps_vals differ from one another, and
\* so do the values
DistinctRules ==
    /\ \A i, j \in RawRules : i # j => Mapping(P)[i].dps_val # Mapping(P)[j].dps_val
    /\ \A i, j \in ValueRules : i # j => Mapping(P)[i].value # Mapping(P)[j].value

\* the value the device holds is the dps_val of a rule
HoldsRuleValue ==
    "1" \in DOMAIN dps /\ \E i \in RawRules : Mapping(P)[i].dps_val = dps["1"]

\* an integer dps whose one rule is the default rule, with a scale
OnlyScaled ==
    /\ P.type = "integer"
    /\ Len(Mapping(P)) = 1
    /\ ~Has(Mapping(P)[1], "dps_val")
    /\ Has(Mapping(P)[1], "scale")

InOwnRange(v) == Has(P, "range") => (v.n >= P.range.min /\ v.n <= P.range.max)

RoundTripRules ==
    /\ DistinctRules
    /\ RawRules \subseteq ValueRules
    /\ \A i \in RawRules :
           /\ ~Has(Mapping(P)[i], "scale")
           /\ Mapping(P)[i].dps_val.t = DpsType(P)
    /\ \A i, j \in ValueRules :
           i # j => PyStr(Mapping(P)[i].value) # PyStr(Mapping(P)[j].value)
    /\ ~Stringify(P)

C8_WitnessScale ==
    /\ last.op = "write_back"
    /\ OnlyScaled
    /\ last.value = F(5, 2)
    /\ last.result.map = ("1" :> I(25))

====
